---- MODULE Spec2Model ----
(***************************************************************************)
(* Canvas MCP service: the command ledger (CommandManager), the WebSocket  *)
(* client registry, the session registry (SessionManager) and the periodic *)
(* cleanup timer of src/src/index.ts.                                      *)
(*                                                                         *)
(* The server is a single-threaded Node.js process: every handler runs to  *)
(* completion, so each handler is one atomic action.  The same holds for   *)
(* the rendering client of src/src/public (CanvasMCPApp and its managers), *)
(* one page in a browser.                                                  *)
(*                                                                         *)
(* Representation:                                                         *)
(*   - a JavaScript Map that is iterated is a sequence in insertion order; *)
(*   - randomUUID() is a fresh number (command ids, client ids, session    *)
(*     ids are 1, 2, ... in order of creation), 0 stands for undefined;    *)
(*   - Date.now() is the variable now, in milliseconds;                    *)
(*   - a string that index.ts builds with join("\n") is the sequence of    *)
(*     its "\n"-separated segments, so the empty string is <<"">>.         *)
(***************************************************************************)
EXTENDS Integers, Sequences, FiniteSets, TLC

\* ------------------------------------------------------------------ bounds

\* Number of commands ever accepted by addCommand.
MaxCommands == 2

\* Number of WebSocket connections ever accepted.
MaxClients == 2

\* The same two numbers in the specifications that also let time pass, sessions
\* come and go, or clients send every status.
FewCommands == 1

FewClients == 1

\* Number of clock steps.
MaxTicks == 2

\* Number of MCP sessions ever initialized.
MaxSessions == 1

\* The same number in the specification of the session registry.
ManySessions == 2

\* Number of WebSockets the rendering client ever creates.
MaxWebSockets == 3

\* Number of command texts the rendering client ever executes.
MaxExecutions == 2

\* The same number in the specification of the command history.
ManyExecutions == 102

\* Number of messages ever posted to the parent window.
MaxPosts == 3

\* ------------------------------------------------------- program constants

\* cleanupOldCommands: "older than 1 hour"
OneHourMs == 60 * 60 * 1000

\* cleanupInactiveSessions: default timeoutMs
SessionTimeoutMs == 30 * 60 * 1000

\* Granularity of the modelled clock: Date.now() advances in steps of this size.
ClockStepMs == 40 * 60 * 1000

\* addToHistory: the history keeps the most recent 100 commands
HistoryLimit == 100

\* ------------------------------------------------------------------- state

VARIABLES
    commands,      \* CommandManager.commands: Map<string, CanvasCommand>, insertion order
    wsClients,     \* CommandManager.wsClients: Map<string, WebSocketClient>, insertion order
    sessions,      \* SessionManager.sessions: session id -> Session
    transports,    \* keys of the transports table
    mcpSessionId,  \* mcpTransport.sessionId (0: undefined)
    sockets,       \* sockets[c]: readyState of the socket of connection c
    received,      \* received[c]: the canvas-command pushes sent on the socket of c
    nextCmd,       \* next fresh command id
    nextSession,   \* next fresh session id
    now,           \* Date.now()
    lastOp,        \* the handler that ran last, with its result
    webSockets,    \* frontend: readyState of each WebSocket it created, in order
    websocket,     \* frontend: (this as any)._websocket, an index of webSockets (0: none)
    reconnectTimers,    \* frontend: pending setTimeout calls of onclose
    destroyed,     \* frontend: destroy() has been called
    sentAcks,      \* frontend: the command-consumed messages it sent
    registeredActions,  \* frontend: StateManager._registeredActions
    posted,        \* frontend: the messages posted to window.parent
    commandHistory,     \* frontend: StateManager._commandHistory
    executions,    \* frontend: number of executeCommand calls so far
    frontOp        \* frontend: the handler that ran last, with its result

\* the state of the server (src/src/index.ts)
server == <<commands, wsClients, sessions, transports, mcpSessionId, sockets,
            received, nextCmd, nextSession, now, lastOp>>

\* the state of the rendering client (src/src/public)
frontend == <<webSockets, websocket, reconnectTimers, destroyed, sentAcks,
              registeredActions, posted, commandHistory, executions, frontOp>>

vars == <<server, frontend>>

\* What a handler of the rendering client did: its input (the type of the
\* message or the cause of the close, the point clicked) and the socket and the
\* command id it was about (0: none).
FrontResult(op, detail, socket, commandId, point) ==
    [op |-> op, detail |-> detail, socket |-> socket, commandId |-> commandId,
     point |-> point]

NoPoint == <<>>


\* CanvasCommand["status"], and a value outside the union that a client may send
Statuses == {"pending", "sent", "executed", "error"}
StatusInputs == Statuses \cup {"bogus"}

\* error texts a client may report ("" is undefined / absent)
ErrorInputs == {"", "boom"}

\* the command ids a client message may carry: the ids issued so far (some of them
\* purged since) and one that was never issued
CommandIdInputs == 1..nextCmd

\* ---------------------------------------------------------------- helpers

RemoveAt(s, i) == SubSeq(s, 1, i - 1) \o SubSeq(s, i + 1, Len(s))

RECURSIVE SelectIndex(_, _, _)
\* Map.get: index of the entry with the given id, 0 when absent
SelectIndex(s, id, i) ==
    IF i > Len(s) THEN 0
    ELSE IF s[i].id = id THEN i
    ELSE SelectIndex(s, id, i + 1)

IndexOf(s, id) == SelectIndex(s, id, 1)

Ids(s) == {s[i].id : i \in 1..Len(s)}

IdSeq(s) == [i \in 1..Len(s) |-> s[i].id]

NoReply == <<>>

\* What a handler did and answered: the command id it was about (0: none), its
\* boolean result, the pushes it sent, the registry entries it deleted, the
\* delivery report to the submitter and what it sent back: the message on the
\* socket, or the content of the tool response.
Result(op, cmd, ok, sentCount, dropped, report, reply) ==
    [op |-> op, cmd |-> cmd, ok |-> ok, sentCount |-> sentCount, dropped |-> dropped,
     report |-> report, reply |-> reply]

\* ------------------------------------------------------------------- Init

Init ==
    /\ commands = <<>>
    /\ wsClients = <<>>
    /\ sessions = <<>>
    /\ transports = {}
    /\ mcpSessionId = 0
    /\ sockets = <<>>
    /\ received = <<>>
    /\ nextCmd = 1
    /\ nextSession = 1
    /\ now = 0
    /\ lastOp = Result("init", 0, FALSE, 0, 0, "none", NoReply)
    /\ webSockets = <<"connecting">>
    /\ websocket = 1
    /\ reconnectTimers = 0
    /\ destroyed = FALSE
    /\ sentAcks = <<>>
    /\ registeredActions = <<>>
    /\ posted = <<>>
    /\ commandHistory = <<>>
    /\ executions = 0
    /\ frontOp = FrontResult("init", "", 0, 0, NoPoint)

\* ------------------------------------------------------------ broadcaster

\* the "canvas-command" message built from a command
CanvasCommandMessage(command) ==
    [type |-> "canvas-command", id |-> command.id, commands |-> command.commands,
     timestamp |-> command.timestamp]

\* NextAfterDelete for a loop that steps over the entry following a deleted one
NextAfterDeleteSkipping(i) == i + 1

\* A for...of loop over a Map whose current entry is deleted goes on with the
\* entry that followed it: in the sequence that entry now has the index i.
NextAfterDelete(i) == i

\* client.ws.readyState === WebSocket.OPEN.  A broken socket either has left
\* OPEN already or is still OPEN and throws on send: throwing holds the broken
\* sockets that are in the second case when the handler runs.
ReadyStateOpen(socks, throwing, clientId) ==
    \/ socks[clientId] = "open"
    \/ socks[clientId] = "broken" /\ clientId \in throwing

\* SendThrows for sockets whose send never throws
SendNeverThrows(socks, throwing, clientId) == FALSE

\* client.ws.send(JSON.stringify(message)) throws
SendThrows(socks, throwing, clientId) ==
    socks[clientId] = "broken" /\ clientId \in throwing

RECURSIVE BroadcastLoop(_, _, _, _, _)
\* for (const [clientId, client] of this.wsClients) { try { ... } catch { ... } }
\* acc: the registry, sentCount, command.clientIds and the sockets' inboxes so far
BroadcastLoop(acc, i, command, socks, throwing) ==
    IF i > Len(acc.wsClients) THEN acc
    ELSE LET clientId == acc.wsClients[i].id IN
         IF ReadyStateOpen(socks, throwing, clientId)
         THEN IF SendThrows(socks, throwing, clientId)
              THEN BroadcastLoop([acc EXCEPT !.wsClients = RemoveAt(@, i)],
                                 NextAfterDelete(i), command, socks, throwing)
              ELSE BroadcastLoop([acc EXCEPT
                                    !.received[clientId] =
                                        Append(@, CanvasCommandMessage(command)),
                                    !.sentCount = @ + 1,
                                    !.clientIds = Append(@, clientId)],
                                 i + 1, command, socks, throwing)
         ELSE BroadcastLoop([acc EXCEPT !.wsClients = RemoveAt(@, i)],
                            NextAfterDelete(i), command, socks, throwing)

\* BroadcastCommand sending to the clients of the command's own session only
BroadcastToOwnSession(command, clients, socks, recv, throwing) ==
    LET b == BroadcastLoop([wsClients |-> SelectSeq(clients, LAMBDA x :
                                             x.sessionId = command.sessionId),
                            sentCount |-> 0, clientIds |-> command.clientIds,
                            received |-> recv],
                           1, command, socks, throwing)
    IN [b EXCEPT !.wsClients = SelectSeq(clients, LAMBDA x :
                                   \/ x.sessionId # command.sessionId
                                   \/ x.id \in Ids(b.wsClients))]

\* BroadcastCommand leaving in the registry the clients it could not send to
BroadcastKeepingFailed(command, clients, socks, recv, throwing) ==
    [BroadcastLoop([wsClients |-> clients, sentCount |-> 0,
                    clientIds |-> command.clientIds, received |-> recv],
                   1, command, socks, throwing)
     EXCEPT !.wsClients = clients]

\* CommandManager.broadcastCommand
BroadcastCommand(command, clients, socks, recv, throwing) ==
    BroadcastLoop([wsClients |-> clients, sentCount |-> 0,
                   clientIds |-> command.clientIds, received |-> recv],
                  1, command, socks, throwing)

\* ----------------------------------------------------------------- ledger

\* NewCommandId handing out the id of the oldest command of the ledger again
ReusedCommandId == IF commands = <<>> THEN nextCmd ELSE commands[1].id

\* addCommand: const id = randomUUID()
NewCommandId == nextCmd

\* StatusAfterBroadcast when a command stays pending whatever was sent
StatusAlwaysPending(sentCount) == "pending"

\* StatusAfterBroadcast when a command is marked sent whatever was sent
StatusAlwaysSent(sentCount) == "sent"

\* addCommand: if (sentCount > 0) command.status = "sent", on a pending command
StatusAfterBroadcast(sentCount) == IF sentCount > 0 THEN "sent" ELSE "pending"

\* CommandManager.addCommand: the ledger, the registry and the inboxes afterwards
AddCommand(payload, sessionId, throwing) ==
    LET command == [id |-> NewCommandId, commands |-> payload, timestamp |-> now,
                    status |-> "pending", sessionId |-> sessionId, error |-> "",
                    clientIds |-> <<>>]
        b == BroadcastCommand(command, wsClients, sockets, received, throwing)
        stored == [command EXCEPT !.clientIds = b.clientIds,
                                  !.status = StatusAfterBroadcast(b.sentCount)]
    IN [id |-> command.id, commands |-> Append(commands, stored),
        wsClients |-> b.wsClients, received |-> b.received,
        sentCount |-> b.sentCount]

\* UpdateCommandStatus keeping the error text a command already has
UpdateStatusKeepingError(cmds, commandId, status, error) ==
    LET k == IndexOf(cmds, commandId) IN
    IF k = 0 THEN [commands |-> cmds, ok |-> FALSE]
    ELSE [commands |-> [cmds EXCEPT ![k].status = status,
                                    ![k].error = IF @ = "" THEN error ELSE @],
          ok |-> TRUE]

\* CommandManager.updateCommandStatus
UpdateCommandStatus(cmds, commandId, status, error) ==
    LET k == IndexOf(cmds, commandId) IN
    IF k = 0 THEN [commands |-> cmds, ok |-> FALSE]
    ELSE [commands |-> [cmds EXCEPT ![k].status = status,
                                    ![k].error = IF error # "" THEN error ELSE @],
          ok |-> TRUE]

\* ConsumableStatus without any check of the status
ConsumableWhateverStatus(status) == TRUE

\* the status from which markCommandConsumed accepts a consumption
ConsumableStatus(status) == status = "pending"

\* MarkCommandConsumed emptying the clientIds of the command it marks
MarkConsumedForgettingClients(cmds, commandId) ==
    LET k == IndexOf(cmds, commandId) IN
    IF k = 0 THEN [commands |-> cmds, ok |-> FALSE]
    ELSE IF cmds[k].status # "pending" THEN [commands |-> cmds, ok |-> FALSE]
    ELSE [commands |-> [cmds EXCEPT ![k].status = "executed", ![k].clientIds = <<>>],
          ok |-> TRUE]

\* MarkCommandConsumed dropping a command that is acknowledged a second time
MarkConsumedOrForget(cmds, commandId) ==
    LET k == IndexOf(cmds, commandId) IN
    IF k = 0 THEN [commands |-> cmds, ok |-> FALSE]
    ELSE IF cmds[k].status = "executed"
    THEN [commands |-> RemoveAt(cmds, k), ok |-> FALSE]
    ELSE IF cmds[k].status # "pending" THEN [commands |-> cmds, ok |-> FALSE]
    ELSE [commands |-> [cmds EXCEPT ![k].status = "executed"], ok |-> TRUE]

\* CommandManager.markCommandConsumed
MarkCommandConsumed(cmds, commandId) ==
    LET k == IndexOf(cmds, commandId) IN
    IF k = 0 THEN [commands |-> cmds, ok |-> FALSE]
    ELSE IF ~ConsumableStatus(cmds[k].status) THEN [commands |-> cmds, ok |-> FALSE]
    ELSE [commands |-> [cmds EXCEPT ![k].status = "executed"], ok |-> TRUE]

\* one insertion of the stable sort: x goes after the entries that are not newer
InsertByTimestamp(sorted, x) ==
    LET before == SelectSeq(sorted, LAMBDA c : c.timestamp <= x.timestamp)
        after == SelectSeq(sorted, LAMBDA c : c.timestamp > x.timestamp)
    IN before \o <<x>> \o after

RECURSIVE SortByTimestamp(_)
\* .sort((a, b) => a.timestamp - b.timestamp): a stable sort, oldest first
SortByTimestamp(s) ==
    IF s = <<>> THEN <<>>
    ELSE InsertByTimestamp(SortByTimestamp(SubSeq(s, 1, Len(s) - 1)), s[Len(s)])

\* GetPendingCommands listing the whole ledger
GetAllCommands(cmds) == SortByTimestamp(cmds)

\* CommandManager.getPendingCommands
GetPendingCommands(cmds) ==
    SortByTimestamp(SelectSeq(cmds, LAMBDA c : c.status = "pending"))

\* CommandManager.getCommandStats
GetCommandStats(cmds) ==
    LET count(st) == Cardinality({k \in 1..Len(cmds) : cmds[k].status = st}) IN
    [total |-> Len(cmds), pending |-> count("pending"), sent |-> count("sent"),
     executed |-> count("executed"), error |-> count("error")]

\* IsOldCommand without the exemption of pending commands
IsOldCommandOfAnyStatus(command, t) == command.timestamp < t - OneHourMs

\* IsOldCommand that finds only delivered commands old, never a failed one
IsOldSentCommand(command, t) ==
    command.timestamp < t - OneHourMs /\ command.status = "sent"

\* the test of cleanupOldCommands on one entry
IsOldCommand(command, t) ==
    command.timestamp < t - OneHourMs /\ command.status # "pending"

\* CommandManager.cleanupOldCommands (deleting the current entry of a Map while
\* iterating it skips nothing: the loop is a filter)
CleanupOldCommands(cmds, t) == SelectSeq(cmds, LAMBDA c : ~IsOldCommand(c, t))

\* IsConsumedCommand taking every terminal status for consumed
IsTerminalCommand(command) == command.status \in {"executed", "error"}

\* IsConsumedCommand taking the commands no client was sent for consumed too
IsConsumedOrPending(command) == command.status \in {"executed", "pending"}

\* the test of clearConsumedCommands on one entry
IsConsumedCommand(command) == command.status = "executed"

\* CommandManager.clearConsumedCommands
ClearConsumedCommands(cmds) == SelectSeq(cmds, LAMBDA c : ~IsConsumedCommand(c))

\* --------------------------------------------------------------- sessions

\* SessionManager.createSession
CreateSession(sess, sessionId, t) ==
    Append(sess, [id |-> sessionId, createdAt |-> t, lastActivity |-> t,
                  clientIds |-> <<>>])

\* AddClientToSession recording the client without touching lastActivity
AddClientWithoutRefresh(sess, sessionId, clientId, t) ==
    LET k == IndexOf(sess, sessionId) IN
    IF k # 0 /\ clientId \notin {sess[k].clientIds[j] : j \in 1..Len(sess[k].clientIds)}
    THEN [sess EXCEPT ![k].clientIds = Append(@, clientId)]
    ELSE sess

\* SessionManager.addClientToSession
AddClientToSession(sess, sessionId, clientId, t) ==
    LET k == IndexOf(sess, sessionId) IN
    IF k # 0 /\ clientId \notin {sess[k].clientIds[j] : j \in 1..Len(sess[k].clientIds)}
    THEN [sess EXCEPT ![k].clientIds = Append(@, clientId), ![k].lastActivity = t]
    ELSE sess

\* RemoveSession deleting the oldest session when the id has none
RemoveSessionOrOldest(sess, sessionId) ==
    IF sessionId \in Ids(sess) THEN SelectSeq(sess, LAMBDA x : x.id # sessionId)
    ELSE IF sess = <<>> THEN sess
    ELSE Tail(sess)

\* SessionManager.removeSession
RemoveSession(sess, sessionId) == SelectSeq(sess, LAMBDA x : x.id # sessionId)

\* IsInactiveSession measuring the age of the session instead of its idle time
IsOldSession(session, t, timeoutMs) == t - session.createdAt > timeoutMs

\* the test of cleanupInactiveSessions on one entry
IsInactiveSession(session, t, timeoutMs) == t - session.lastActivity > timeoutMs

\* SessionManager.cleanupInactiveSessions
CleanupInactiveSessions(sess, t, timeoutMs) ==
    SelectSeq(sess, LAMBDA x : ~IsInactiveSession(x, t, timeoutMs))

\* the count cleanupInactiveSessions returns: cleaned++ for each entry it deletes
CleanedSessions(sess, t, timeoutMs) ==
    Cardinality({k \in 1..Len(sess) : IsInactiveSession(sess[k], t, timeoutMs)})

\* ------------------------------------------------------------- validation

\* The lines of the draw_canvas calls of this model are "clear()",
\* "fr(10,10,20,20)", "zap(1)", "draw a cat" and "", classified below as
\* validateDSLCommands classifies them.

\* command.trim() is empty
IsBlankLine(line) == line = ""

\* command.startsWith("//")
IsCommentLine(line) == FALSE

\* /^(\w+)\([^)]*\)$/ matches
MatchesCommandPattern(line) == line \in {"clear()", "fr(10,10,20,20)", "zap(1)"}

\* match[1] of /^(\w+)\(/
CommandName(line) ==
    CASE line = "clear()" -> "clear"
      [] line = "fr(10,10,20,20)" -> "fr"
      [] line = "zap(1)" -> "zap"
      [] OTHER -> ""

ValidCommands == {"s", "l", "r", "fr", "c", "fc", "t", "p", "clear", "action"}

\* LineError of a validation that accepts every line
NoLineError(line) == ""

\* the error validateDSLCommands pushes for the i-th command, "" when it pushes none
LineError(line) ==
    IF IsBlankLine(line) THEN "Empty command"
    ELSE IF IsCommentLine(line) THEN ""
    ELSE IF ~MatchesCommandPattern(line) THEN "Invalid command syntax"
    ELSE IF CommandName(line) \notin ValidCommands THEN "Unknown command"
    ELSE ""

\* validateDSLCommands: the errors, each with the 1-based position of its command
ValidateDSLCommands(cmds) ==
    LET errors == SelectSeq([i \in 1..Len(cmds) |->
                                [index |-> i, error |-> LineError(cmds[i])]],
                            LAMBDA e : e.error # "")
    IN [isValid |-> Len(errors) = 0, errors |-> errors]

\* commands.join("\n"), as the sequence of the "\n"-separated segments of the result
JoinLines(cmds) == IF cmds = <<>> THEN <<"">> ELSE cmds

\* the arguments of the draw_canvas calls of this model
Submissions ==
    {<<"clear()", "fr(10,10,20,20)">>, <<>>, <<"zap(1)">>, <<"clear()", "draw a cat">>,
     <<"">>}

\* ---------------------------------------------------------------- handlers

\* the broken sockets that are in the registry
BrokenRegistered == {c \in Ids(wsClients) : sockets[c] = "broken"}

\* handleDrawCanvas (the draw_canvas tool call), for the calls of submissions and
\* while fewer than maxCommands commands were accepted
DrawCanvas(submissions, maxCommands) ==
    \E cmds \in submissions :
        LET validation == ValidateDSLCommands(cmds) IN
        IF ~validation.isValid
        THEN /\ UNCHANGED frontend
             /\ lastOp' = Result("draw", 0, FALSE, 0, 0, "invalid",
                                 <<[isError |-> TRUE, errors |-> validation.errors]>>)
             /\ UNCHANGED <<commands, wsClients, sessions, transports, mcpSessionId,
                            sockets, received, nextCmd, nextSession, now>>
        ELSE /\ nextCmd <= maxCommands
             /\ \E throwing \in SUBSET BrokenRegistered :
                    LET r == AddCommand(JoinLines(cmds), mcpSessionId, throwing) IN
                    /\ commands' = r.commands
                    /\ wsClients' = r.wsClients
                    /\ received' = r.received
                    /\ nextCmd' = nextCmd + 1
                    /\ UNCHANGED frontend
                    /\ lastOp' = Result("draw", r.id, TRUE, r.sentCount,
                                        Len(wsClients) - Len(r.wsClients),
                                        IF Len(r.wsClients) > 0 THEN "broadcast"
                                                                ELSE "cached",
                                        <<[isError |-> FALSE, commandId |-> r.id,
                                           stats |-> GetCommandStats(r.commands)]>>)
             /\ UNCHANGED <<sessions, transports, mcpSessionId, sockets, nextSession,
                            now>>

\* ReplayedOnConnect for a replay of the commands no client was sent yet
NeverDelivered(command) == command.clientIds = <<>>

\* addWebSocketClient: if (command.status === "pending")
ReplayedOnConnect(command) == command.status = "pending"

RECURSIVE ReplayLoop(_, _, _, _)
\* for (const command of this.commands.values())
\*     if (command.status === "pending") this.broadcastCommand(command);
ReplayLoop(acc, k, socks, throwing) ==
    IF k > Len(acc.commands) THEN acc
    ELSE IF ReplayedOnConnect(acc.commands[k])
    THEN LET b == BroadcastCommand(acc.commands[k], acc.wsClients, socks,
                                   acc.received, throwing)
         IN ReplayLoop([commands |-> [acc.commands EXCEPT ![k].clientIds = b.clientIds],
                        wsClients |-> b.wsClients,
                        received |-> b.received,
                        sentCount |-> acc.sentCount + b.sentCount],
                       k + 1, socks, throwing)
    ELSE ReplayLoop(acc, k + 1, socks, throwing)

\* CommandManager.addWebSocketClient
AddWebSocketClient(clientId, sessionId, socks, throwing) ==
    LET registered == Append(wsClients, [id |-> clientId, sessionId |-> sessionId,
                                         connectedAt |-> now])
        sess == IF sessionId # 0
                THEN AddClientToSession(sessions, sessionId, clientId, now)
                ELSE sessions
        r == ReplayLoop([commands |-> commands, wsClients |-> registered,
                         received |-> Append(received, <<>>), sentCount |-> 0],
                        1, socks, throwing)
    IN [commands |-> r.commands, wsClients |-> r.wsClients, received |-> r.received,
        sessions |-> sess, sentCount |-> r.sentCount]

\* A new socket registered by addWebSocketClient with one of the session ids
\* given (0: none), while fewer than maxClients connections were accepted.
RegisterClient(maxClients, sessionIds) ==
    /\ Len(sockets) < maxClients
    /\ \E sessionId \in sessionIds, throwing \in SUBSET BrokenRegistered :
        LET clientId == Len(sockets) + 1
            socks == Append(sockets, "open")
            r == AddWebSocketClient(clientId, sessionId, socks, throwing)
        IN /\ sockets' = socks
           /\ commands' = r.commands
           /\ wsClients' = r.wsClients
           /\ received' = r.received
           /\ sessions' = r.sessions
           /\ UNCHANGED frontend
           /\ lastOp' = Result("connection", 0, TRUE, r.sentCount,
                               Len(wsClients) + 1 - Len(r.wsClients), "none",
                               NoReply)
    /\ UNCHANGED <<transports, mcpSessionId, nextCmd, nextSession, now>>

\* wss.on("connection"): the new socket is registered without a session id
WsConnection(maxClients) == RegisterClient(maxClients, {0})

\* addWebSocketClient called with its optional sessionId argument: the id of a
\* session ever created, or one that no session has.  The connection handler
\* of index.ts never passes the argument; this is the method driven directly.
AssociatedConnection(maxClients) == RegisterClient(maxClients, 1..nextSession)

\* the sockets on which a message event can still fire
Talking == {c \in 1..Len(sockets) : sockets[c] # "closed"}

\* ws.on("message"), case "command-status", for the statuses and errors given
WsCommandStatus(statuses, errors) ==
    \E commandId \in CommandIdInputs, status \in statuses, error \in errors :
        /\ Talking # {}
        /\ LET r == UpdateCommandStatus(commands, commandId, status, error) IN
           /\ commands' = r.commands
           /\ UNCHANGED frontend
           /\ lastOp' = Result("command-status", commandId, r.ok, 0, 0, "none", NoReply)
        /\ UNCHANGED <<wsClients, sessions, transports, mcpSessionId, sockets, received,
                       nextCmd, nextSession, now>>

\* ws.on("message"), case "command-consumed"
WsCommandConsumed ==
    \E commandId \in CommandIdInputs :
        /\ Talking # {}
        /\ LET r == MarkCommandConsumed(commands, commandId) IN
           /\ commands' = r.commands
           /\ UNCHANGED frontend
           /\ lastOp' = Result("command-consumed", commandId, r.ok, 0, 0, "none",
                               <<[type |-> "consume-ack", commandId |-> commandId,
                                  success |-> r.ok]>>)
        /\ UNCHANGED <<wsClients, sessions, transports, mcpSessionId, sockets, received,
                       nextCmd, nextSession, now>>

\* The frontend (main.ts) answers a canvas-command push it has received with a
\* command-consumed message for the id of the push, which ws.on("message")
\* handles as above.
FrontendConsumes ==
    \E c \in Ids(wsClients) :
        /\ sockets[c] = "open"
        /\ \E i \in 1..Len(received[c]) :
               LET commandId == received[c][i].id
                   r == MarkCommandConsumed(commands, commandId)
               IN /\ commands' = r.commands
                  /\ UNCHANGED frontend
                  /\ lastOp' = Result("command-consumed", commandId, r.ok, 0, 0, "none",
                                      <<[type |-> "consume-ack", commandId |-> commandId,
                                         success |-> r.ok]>>)
        /\ UNCHANGED <<wsClients, sessions, transports, mcpSessionId, sockets, received,
                       nextCmd, nextSession, now>>

\* ws.on("message"): a message of another type, or one JSON.parse rejects
WsOtherMessage ==
    \E kind \in {"unknown-type", "invalid-json"} :
        /\ Talking # {}
        /\ UNCHANGED frontend
        /\ lastOp' = Result(kind, 0, FALSE, 0, 0, "none", NoReply)
        /\ UNCHANGED <<commands, wsClients, sessions, transports, mcpSessionId, sockets,
                       received, nextCmd, nextSession, now>>

\* RemoveWebSocketClient deleting the oldest entry when the id is not registered
RemoveClientOrOldest(clients, clientId) ==
    IF clientId \in Ids(clients) THEN SelectSeq(clients, LAMBDA x : x.id # clientId)
    ELSE IF clients = <<>> THEN clients
    ELSE Tail(clients)

\* RemoveWebSocketClient leaving the registry as it is
KeepWebSocketClient(clients, clientId) == clients

\* CommandManager.removeWebSocketClient
RemoveWebSocketClient(clients, clientId) == SelectSeq(clients, LAMBDA x : x.id # clientId)

\* the socket of a connection breaks before any event is dispatched to the server
SocketDrop ==
    \E c \in 1..Len(sockets) :
        /\ sockets[c] = "open"
        /\ sockets' = [sockets EXCEPT ![c] = "broken"]
        /\ UNCHANGED frontend
        /\ lastOp' = Result("drop", 0, TRUE, 0, 0, "none", NoReply)
        /\ UNCHANGED <<commands, wsClients, sessions, transports, mcpSessionId, received,
                       nextCmd, nextSession, now>>

\* ws.on("error")
WsError ==
    \E c \in Talking :
        /\ sockets' = [sockets EXCEPT ![c] = "broken"]
        /\ wsClients' = RemoveWebSocketClient(wsClients, c)
        /\ UNCHANGED frontend
        /\ lastOp' = Result("error", 0, TRUE, 0, Len(wsClients) - Len(wsClients'),
                            "none", NoReply)
        /\ UNCHANGED <<commands, sessions, transports, mcpSessionId, received, nextCmd,
                       nextSession, now>>

\* ws.on("close")
WsClose ==
    \E c \in Talking :
        /\ sockets' = [sockets EXCEPT ![c] = "closed"]
        /\ wsClients' = RemoveWebSocketClient(wsClients, c)
        /\ UNCHANGED frontend
        /\ lastOp' = Result("close", 0, TRUE, 0, Len(wsClients) - Len(wsClients'),
                            "none", NoReply)
        /\ UNCHANGED <<commands, sessions, transports, mcpSessionId, received, nextCmd,
                       nextSession, now>>

\* expressApp.post("/command-status"), for the statuses and errors given
HttpCommandStatus(statuses, errors) ==
    \E commandId \in CommandIdInputs, status \in statuses, error \in errors :
        LET r == UpdateCommandStatus(commands, commandId, status, error) IN
        /\ commands' = r.commands
        /\ UNCHANGED frontend
        /\ lastOp' = Result("http-command-status", commandId, r.ok, 0, 0, "none", NoReply)
        /\ UNCHANGED <<wsClients, sessions, transports, mcpSessionId, sockets, received,
                       nextCmd, nextSession, now>>

\* the callback of setInterval(..., 30000) in startServer
CleanupInterval ==
    /\ commands' = ClearConsumedCommands(CleanupOldCommands(commands, now))
    /\ sessions' = CleanupInactiveSessions(sessions, now, SessionTimeoutMs)
    /\ UNCHANGED frontend
    /\ lastOp' = Result("cleanup", 0, TRUE, 0, 0, "none",
                        <<[cleanedSessions |->
                               CleanedSessions(sessions, now, SessionTimeoutMs)]>>)
    /\ UNCHANGED <<wsClients, transports, mcpSessionId, sockets, received, nextCmd,
                   nextSession, now>>

\* onsessioninitialized of the StreamableHTTPServerTransport, while fewer than
\* maxSessions sessions were initialized
SessionInitializedUpTo(maxSessions) ==
    /\ nextSession <= maxSessions
    /\ mcpSessionId' = nextSession
    /\ nextSession' = nextSession + 1
    /\ transports' = transports \cup {nextSession}
    /\ sessions' = CreateSession(sessions, nextSession, now)
    /\ UNCHANGED frontend
    /\ lastOp' = Result("session-initialized", 0, TRUE, 0, 0, "none", NoReply)
    /\ UNCHANGED <<commands, wsClients, sockets, received, nextCmd, now>>

SessionInitialized == SessionInitializedUpTo(MaxSessions)

\* mcpTransport.onclose
TransportClose ==
    /\ IF mcpSessionId # 0
       THEN /\ transports' = transports \ {mcpSessionId}
            /\ sessions' = RemoveSession(sessions, mcpSessionId)
       ELSE UNCHANGED <<transports, sessions>>
    /\ UNCHANGED frontend
    /\ lastOp' = Result("transport-close", 0, TRUE, 0, Len(sessions) - Len(sessions'),
                        "none", NoReply)
    /\ UNCHANGED <<commands, wsClients, mcpSessionId, sockets, received, nextCmd,
                   nextSession, now>>

\* time passes
Tick ==
    /\ now < MaxTicks * ClockStepMs
    /\ now' = now + ClockStepMs
    /\ UNCHANGED frontend
    /\ lastOp' = Result("tick", 0, TRUE, 0, 0, "none", NoReply)
    /\ UNCHANGED <<commands, wsClients, sessions, transports, mcpSessionId, sockets,
                   received, nextCmd, nextSession>>

\* ------------------------------------------------------- rendering client

\* the command ids a canvas-command push may carry
PushedCommandIds == 1..2

\* the types of the messages a socket delivers to onmessage ("none": the data is
\* not JSON or has no type field)
MessageTypes == {"canvas-command", "consume-ack", "connection", "other", "none"}

\* the clickable areas the executed commands register, and the points clicked
Areas ==
    {[x |-> 0, y |-> 0, width |-> 10, height |-> 10, eventName |-> "ok"],
     [x |-> 0, y |-> 0, width |-> 10, height |-> 10, eventName |-> "cancel"],
     [x |-> 5, y |-> 5, width |-> 10, height |-> 10, eventName |-> "more"]}

Points == {<<2, 2>>, <<7, 7>>, <<12, 12>>, <<20, 20>>}

\* the areas one executed text may register: none, one, or two in some order
NoAreas == {<<>>}

AreaLists == NoAreas \cup {<<a>> : a \in Areas} \cup {<<a, b>> : a, b \in Areas}

\* the text of the next command executed: the texts are all different, the n-th
\* is the number n
NextText == executions + 1

\* AddToHistory keeping the oldest entries when the history is full
AddToHistoryKeepingOldest(history, command) ==
    LET pushed == Append(history, command) IN
    IF Len(pushed) > HistoryLimit THEN SubSeq(pushed, 1, HistoryLimit) ELSE pushed

\* StateManager.addToHistory: push, then slice(-100) when longer than 100
AddToHistory(history, command) ==
    LET pushed == Append(history, command) IN
    IF Len(pushed) > HistoryLimit
    THEN SubSeq(pushed, Len(pushed) - HistoryLimit + 1, Len(pushed))
    ELSE pushed

RECURSIVE FindSameRectangle(_, _, _)
\* addAction: findIndex of an area with the same x, y, width and height (0: -1)
FindSameRectangle(actions, area, i) ==
    IF i > Len(actions) THEN 0
    ELSE IF /\ actions[i].x = area.x /\ actions[i].y = area.y
            /\ actions[i].width = area.width /\ actions[i].height = area.height
    THEN i
    ELSE FindSameRectangle(actions, area, i + 1)

\* StateManager.addAction
AddAction(actions, area) ==
    LET existingIndex == FindSameRectangle(actions, area, 1) IN
    IF existingIndex > 0 THEN [actions EXCEPT ![existingIndex] = area]
    ELSE Append(actions, area)

RECURSIVE AddActions(_, _, _)
\* the calls of addAction made by the renderer for the action commands of one
\* executed text, in their order
AddActions(actions, areas, i) ==
    IF i > Len(areas) THEN actions
    ELSE AddActions(AddAction(actions, areas[i]), areas, i + 1)

\* StateManager.isPointInArea
IsPointInArea(x, y, area) ==
    /\ x >= area.x /\ x <= area.x + area.width
    /\ y >= area.y /\ y <= area.y + area.height

RECURSIVE FindClickedAction(_, _, _, _)
\* StateManager.getClickedAction: index of the first registered area that holds
\* the point (0: null)
FindClickedAction(actions, x, y, i) ==
    IF i > Len(actions) THEN 0
    ELSE IF IsPointInArea(x, y, actions[i]) THEN i
    ELSE FindClickedAction(actions, x, y, i + 1)

GetClickedAction(actions, x, y) == FindClickedAction(actions, x, y, 1)

\* the ai-canvas-event message of an area (its timestamp left out)
CanvasEvent(area) ==
    [type |-> "ai-canvas-event", eventName |-> area.eventName, source |-> "canvas-mcp"]

\* EventsManager.handleCanvasClick and triggerAction: what the parent window has
\* been posted afterwards
EventsHandleCanvasClick(posts, actions, x, y) ==
    LET k == GetClickedAction(actions, x, y) IN
    IF k # 0 THEN Append(posts, CanvasEvent(actions[k])) ELSE posts

\* CanvasMCPApp.handleCanvasClick: what the parent window has been posted afterwards
AppHandleCanvasClick(posts, actions, x, y) ==
    LET k == GetClickedAction(actions, x, y) IN
    IF k # 0 THEN Append(posts, CanvasEvent(actions[k])) ELSE posts

\* sendConsumeConfirmation: the messages sent afterwards
SendConsumeConfirmation(acks, socks, ws, commandId) ==
    IF ws # 0 /\ socks[ws] = "open"
    THEN Append(acks, [type |-> "command-consumed", commandId |-> commandId,
                       socket |-> ws])
    ELSE acks

\* ConfirmPush confirming only the pushes whose execution did not throw
ConfirmExecutedPush(acks, socks, ws, commandId, thrown) ==
    IF thrown THEN acks ELSE SendConsumeConfirmation(acks, socks, ws, commandId)

\* onmessage, case "canvas-command": try { executeCommand; sendConsumeConfirmation }
\* catch { sendConsumeConfirmation }, for an executeCommand that threw or not
ConfirmPush(acks, socks, ws, commandId, thrown) ==
    SendConsumeConfirmation(acks, socks, ws, commandId)

\* A click on the canvas at one of the points, while fewer than maxPosts messages
\* were posted: the listener of the EventsManager, registered first by the
\* constructor of CanvasMCPApp, then the listener of CanvasMCPApp itself.
CanvasClick(maxPosts) ==
    /\ Len(posted) < maxPosts
    /\ \E point \in Points :
          /\ posted' = AppHandleCanvasClick(
                           EventsHandleCanvasClick(posted, registeredActions,
                                                   point[1], point[2]),
                           registeredActions, point[1], point[2])
          /\ frontOp' = FrontResult("click", "", 0, 0, point)
    /\ UNCHANGED <<webSockets, websocket, reconnectTimers, destroyed, sentAcks,
                   registeredActions, commandHistory, executions>>
    /\ UNCHANGED server

\* A click on the clear-canvas button: CanvasMCPApp.clearCanvas (the listener of
\* the EventsManager only dispatches a custom event)
ClearCanvas ==
    /\ registeredActions' = <<>>
    /\ frontOp' = FrontResult("clear-canvas", "", 0, 0, NoPoint)
    /\ UNCHANGED <<webSockets, websocket, reconnectTimers, destroyed, sentAcks,
                   posted, commandHistory, executions>>
    /\ UNCHANGED server

\* A click on the clear-history button: CanvasMCPApp.clearHistory
ClearHistory ==
    /\ commandHistory' = <<>>
    /\ frontOp' = FrontResult("clear-history", "", 0, 0, NoPoint)
    /\ UNCHANGED <<webSockets, websocket, reconnectTimers, destroyed, sentAcks,
                   registeredActions, posted, executions>>
    /\ UNCHANGED server

\* CanvasMCPApp.executeCommand called from the page (manual input, the global
\* executeCanvasCommand, a window message), while fewer than maxExecutions texts
\* were executed; areas are the clickable areas the text's action commands
\* register, in their order
ExecuteCommand(maxExecutions, areaLists) ==
    /\ executions < maxExecutions
    /\ \E areas \in areaLists :
          /\ commandHistory' = AddToHistory(commandHistory, NextText)
          /\ registeredActions' = AddActions(registeredActions, areas, 1)
          /\ frontOp' = FrontResult("execute", "", 0, 0, NoPoint)
    /\ executions' = executions + 1
    /\ UNCHANGED <<webSockets, websocket, reconnectTimers, destroyed, sentAcks,
                   posted>>
    /\ UNCHANGED server

\* websocket.onopen
FrontOpen ==
    /\ \E k \in 1..Len(webSockets) :
          /\ webSockets[k] = "connecting"
          /\ webSockets' = [webSockets EXCEPT ![k] = "open"]
          /\ frontOp' = FrontResult("open", "", k, 0, NoPoint)
    /\ UNCHANGED <<websocket, reconnectTimers, destroyed, sentAcks,
                   registeredActions, posted, commandHistory, executions>>
    /\ UNCHANGED server

\* websocket.onmessage on an open socket, for a message of one of the types and,
\* for a canvas-command, while fewer than maxExecutions texts were executed.
\* thrown: executeCommand throws (at its first statement, a change of the page),
\* which the handler catches.
FrontMessage(maxExecutions, areaLists) ==
    /\ \E k \in 1..Len(webSockets), type \in MessageTypes,
          commandId \in PushedCommandIds, thrown \in BOOLEAN, areas \in areaLists :
          /\ webSockets[k] = "open"
          /\ IF type = "canvas-command"
             THEN /\ executions < maxExecutions
                  /\ executions' = executions + 1
                  /\ commandHistory' =
                         IF thrown THEN commandHistory
                         ELSE AddToHistory(commandHistory, NextText)
                  /\ registeredActions' =
                         IF thrown THEN registeredActions
                         ELSE AddActions(registeredActions, areas, 1)
                  /\ sentAcks' = ConfirmPush(sentAcks, webSockets, websocket,
                                             commandId, thrown)
                  /\ frontOp' = FrontResult("message", type, k, commandId, NoPoint)
             ELSE /\ ~thrown
                  /\ commandId = 1
                  /\ frontOp' = FrontResult("message", type, k, 0, NoPoint)
                  /\ UNCHANGED <<executions, commandHistory, registeredActions,
                                 sentAcks>>
    /\ UNCHANGED <<webSockets, websocket, reconnectTimers, destroyed, posted>>
    /\ UNCHANGED server

\* websocket.onclose: the close event of a socket that the other side closed, that
\* failed to connect, or that destroy() closed; it schedules a reconnect
FrontClose ==
    /\ \E k \in 1..Len(webSockets) :
          /\ webSockets[k] \in {"connecting", "open", "closing"}
          /\ webSockets' = [webSockets EXCEPT ![k] = "closed"]
          /\ frontOp' = FrontResult("close",
                                    IF webSockets[k] = "closing" THEN "destroy"
                                                                 ELSE "remote",
                                    k, 0, NoPoint)
    /\ reconnectTimers' = reconnectTimers + 1
    /\ UNCHANGED <<websocket, destroyed, sentAcks, registeredActions, posted,
                   commandHistory, executions>>
    /\ UNCHANGED server

\* the setTimeout callback of onclose: startWebSocketConnection, while fewer than
\* maxWebSockets sockets were created
ReconnectTimer(maxWebSockets) ==
    /\ reconnectTimers > 0
    /\ Len(webSockets) < maxWebSockets
    /\ reconnectTimers' = reconnectTimers - 1
    /\ webSockets' = Append(webSockets, "connecting")
    /\ websocket' = Len(webSockets) + 1
    /\ frontOp' = FrontResult("reconnect", "", Len(webSockets) + 1, 0, NoPoint)
    /\ UNCHANGED <<destroyed, sentAcks, registeredActions, posted, commandHistory,
                   executions>>
    /\ UNCHANGED server

\* CanvasMCPApp.destroy
Destroy ==
    /\ destroyed' = TRUE
    /\ IF websocket # 0
       THEN /\ webSockets' = [webSockets EXCEPT ![websocket] =
                                 IF @ \in {"connecting", "open"} THEN "closing" ELSE @]
            /\ websocket' = 0
       ELSE UNCHANGED <<webSockets, websocket>>
    /\ frontOp' = FrontResult("destroy", "", websocket, 0, NoPoint)
    /\ UNCHANGED <<reconnectTimers, sentAcks, registeredActions, posted,
                   commandHistory, executions>>
    /\ UNCHANGED server

\* --------------------------------------------------------- specifications

\* The whole server.
Next ==
    \/ DrawCanvas(Submissions, MaxCommands)
    \/ WsConnection(MaxClients)
    \/ WsCommandStatus(StatusInputs, ErrorInputs)
    \/ WsCommandConsumed
    \/ WsOtherMessage
    \/ SocketDrop
    \/ WsError
    \/ WsClose
    \/ HttpCommandStatus(StatusInputs, ErrorInputs)
    \/ CleanupInterval
    \/ SessionInitialized
    \/ TransportClose
    \/ Tick

Spec == Init /\ [][Next]_vars

\* The specifications below are the server, or the rendering client, with some
\* handlers never called and some inputs never sent; a few of them drive a method
\* of a registry with an argument that no handler of the server passes, which
\* their comments say.

\* one accepted and one rejected draw_canvas call
PlainSubmissions == {<<"clear()", "fr(10,10,20,20)">>, <<"zap(1)">>}

\* Submission, fan-out, replay on connect and consumption acknowledgment.
NextDelivery ==
    \/ DrawCanvas(PlainSubmissions, MaxCommands)
    \/ WsConnection(MaxClients)
    \/ WsCommandConsumed
    \/ SocketDrop
    \/ WsError
    \/ WsClose

SpecDelivery == Init /\ [][NextDelivery]_vars

\* The command lifecycle under every client message that carries a status of
\* CanvasCommand["status"].
NextLifecycle ==
    \/ DrawCanvas(PlainSubmissions, FewCommands)
    \/ WsConnection(FewClients)
    \/ WsCommandStatus(Statuses, ErrorInputs)
    \/ HttpCommandStatus(Statuses, ErrorInputs)
    \/ WsCommandConsumed
    \/ WsOtherMessage
    \/ WsClose

SpecLifecycle == Init /\ [][NextLifecycle]_vars

\* The periodic cleanup of the ledger as time passes.
NextCleanup ==
    \/ DrawCanvas(PlainSubmissions, FewCommands)
    \/ WsConnection(FewClients)
    \/ WsCommandStatus({"error"}, {"boom"})
    \/ WsCommandConsumed
    \/ WsClose
    \/ CleanupInterval
    \/ Tick

SpecCleanup == Init /\ [][NextCleanup]_vars

\* Acknowledgments next to everything they must leave alone: the ledger with
\* terminal and purged commands, the client registry and the session registry.
NextAck ==
    \/ DrawCanvas(PlainSubmissions, FewCommands)
    \/ WsConnection(FewClients)
    \/ WsCommandStatus({"error"}, {"boom"})
    \/ WsCommandConsumed
    \/ WsClose
    \/ CleanupInterval
    \/ SessionInitialized
    \/ TransportClose

SpecAck == Init /\ [][NextAck]_vars

\* Every draw_canvas call of the model, accepted or rejected, next to the
\* registries a rejected call must leave alone.
NextSubmission ==
    \/ DrawCanvas(Submissions, FewCommands)
    \/ WsConnection(FewClients)
    \/ SocketDrop
    \/ WsClose
    \/ SessionInitialized
    \/ TransportClose

SpecSubmission == Init /\ [][NextSubmission]_vars

\* The ledger over time: pending, sent and executed commands of several ages,
\* some of them purged.
NextLedger ==
    \/ DrawCanvas(PlainSubmissions, MaxCommands)
    \/ WsConnection(FewClients)
    \/ WsCommandConsumed
    \/ CleanupInterval
    \/ Tick

SpecLedger == Init /\ [][NextLedger]_vars

\* error texts a client may report: none, or one of two
ErrorDetails == {"", "boom", "bang"}

\* the statuses of the reports: a delivery report and a failure report
ReportStatuses == {"sent", "error"}

\* Status reports of clients, over the socket and over HTTP, with and without an
\* error text.
NextReport ==
    \/ DrawCanvas(PlainSubmissions, FewCommands)
    \/ WsConnection(FewClients)
    \/ WsCommandStatus(ReportStatuses, ErrorDetails)
    \/ HttpCommandStatus({"error"}, ErrorDetails)
    \/ WsClose

SpecReport == Init /\ [][NextReport]_vars

\* Every kind of message a client may send on its socket, well-formed or not,
\* with any status.
NextTraffic ==
    \/ DrawCanvas(PlainSubmissions, FewCommands)
    \/ WsConnection(FewClients)
    \/ WsCommandStatus(StatusInputs, {""})
    \/ WsCommandConsumed
    \/ WsOtherMessage
    \/ WsClose
    \/ SessionInitialized

SpecTraffic == Init /\ [][NextTraffic]_vars

\* The session registry over time: sessions created, associated with clients,
\* closed by their transport and swept.
NextSessions ==
    \/ WsConnection(FewClients)
    \/ AssociatedConnection(FewClients)
    \/ WsClose
    \/ SessionInitializedUpTo(ManySessions)
    \/ TransportClose
    \/ CleanupInterval
    \/ Tick

SpecSessions == Init /\ [][NextSessions]_vars

\* Submissions of every origin (no session, or the session of the transport)
\* broadcast to clients of every association.
NextOrigin ==
    \/ DrawCanvas(PlainSubmissions, MaxCommands)
    \/ WsConnection(FewClients)
    \/ AssociatedConnection(FewClients)
    \/ SocketDrop
    \/ SessionInitialized

SpecOrigin == Init /\ [][NextOrigin]_vars

\* Submissions to clients that stay connected and follow the frontend protocol:
\* every push is answered, sooner or later, with its acknowledgment.
NextProtocol ==
    \/ DrawCanvas(PlainSubmissions, MaxCommands)
    \/ WsConnection(MaxClients)
    \/ FrontendConsumes

SpecProtocol == Init /\ [][NextProtocol]_vars /\ WF_vars(FrontendConsumes)

\* The ledger under acknowledgments and failure reports of clients that stay
\* connected, with a cleanup timer that keeps firing and a clock that keeps
\* advancing (up to the bound of the clock).
NextCollection ==
    \/ DrawCanvas(PlainSubmissions, FewCommands)
    \/ WsConnection(FewClients)
    \/ WsCommandStatus({"error"}, {"boom"})
    \/ WsCommandConsumed
    \/ CleanupInterval
    \/ Tick

SpecCollection ==
    Init /\ [][NextCollection]_vars /\ WF_vars(CleanupInterval) /\ WF_vars(Tick)

\* The connection of the rendering client: its sockets open, deliver messages
\* and close, it reconnects, and the page may destroy it.
NextConnection ==
    \/ FrontOpen
    \/ FrontMessage(MaxExecutions, NoAreas)
    \/ FrontClose
    \/ ReconnectTimer(MaxWebSockets)
    \/ Destroy

SpecConnection == Init /\ [][NextConnection]_vars

\* Clickable areas and clicks on the canvas of the rendering client.
NextClicks ==
    \/ ExecuteCommand(MaxExecutions, AreaLists)
    \/ CanvasClick(MaxPosts)
    \/ ClearCanvas

SpecClicks == Init /\ [][NextClicks]_vars

\* The command history of the rendering client.
NextHistory ==
    \/ ExecuteCommand(ManyExecutions, NoAreas)
    \/ ClearHistory

SpecHistory == Init /\ [][NextHistory]_vars

\* ----------------------------------------------------------------- claims

\* the status of the command with the given id, "missing" when the ledger has none
StatusOf(cmds, id) ==
    IF IndexOf(cmds, id) = 0 THEN "missing" ELSE cmds[IndexOf(cmds, id)].status

\* the server's answer to a command-consumed message
ConsumeAck(id, success) ==
    <<[type |-> "consume-ack", commandId |-> id, success |-> success]>>

\* C1: a command-consumed message for a command that is Pending or Sent moves the
\* command to Executed, and the server answers consume-ack with success true.
C1_ConsumedFromPendingOrSent ==
    [][\A id \in Ids(commands) :
          (/\ lastOp'.op = "command-consumed"
           /\ lastOp'.cmd = id
           /\ StatusOf(commands, id) \in {"pending", "sent"})
          => (/\ StatusOf(commands', id) = "executed"
              /\ lastOp'.reply = ConsumeAck(id, TRUE))]_vars

\* the lifecycle: Pending -> Sent, Pending -> Executed, Sent -> Executed,
\* Pending -> Error, Sent -> Error
LifecycleTransitions ==
    {<<"pending", "sent">>, <<"pending", "executed">>, <<"sent", "executed">>,
     <<"pending", "error">>, <<"sent", "error">>}

\* C2: under client messages the status of a command only moves along the
\* lifecycle: it never leaves Executed or Error, and never goes back to Pending.
C2_MonotonicLifecycle ==
    [][\A id \in Ids(commands) \cap Ids(commands') :
          \/ StatusOf(commands', id) = StatusOf(commands, id)
          \/ <<StatusOf(commands, id), StatusOf(commands', id)>> \in LifecycleTransitions
      ]_vars

\* the command is older than the age threshold of the cleanup at time t
OlderThanThreshold(command, t) == command.timestamp < t - OneHourMs

\* the command is younger than the age threshold of the cleanup at time t
YoungerThanThreshold(command, t) == command.timestamp > t - OneHourMs

\* the step is a run of the periodic cleanup
CleanupStep == lastOp'.op = "cleanup"

\* the cleanup step leaves entry k of the ledger in it, as it is
Kept(k) ==
    /\ commands[k].id \in Ids(commands')
    /\ commands'[IndexOf(commands', commands[k].id)] = commands[k]

PushedIds(recv, c) == [i \in 1..Len(recv[c]) |-> recv[c][i].id]

\* C4: a connection is sent the canvas-command push of a given command id at
\* most once.
C4_AtMostOncePerConnection ==
    \A c \in 1..Len(received) :
        \A i, j \in 1..Len(received[c]) :
            i # j => received[c][i].id # received[c][j].id

\* the step is the registration of a new connection
ConnectionStep == lastOp'.op = "connection"

\* the pushes a replay of the pending backlog sends to one client
Backlog(cmds) ==
    LET pending == SelectSeq(cmds, LAMBDA c : c.status = "pending")
    IN [i \in 1..Len(pending) |-> CanvasCommandMessage(pending[i])]

\* C5: when a client connects, every Pending command is pushed to it and nothing
\* is pushed to the clients registered before.
C5_ReplayToNewcomerOnly ==
    [][ConnectionStep =>
          /\ received'[Len(sockets')] = Backlog(commands)
          /\ \A c \in 1..Len(sockets) : received'[c] = received[c]]_vars

\* C6: when a client connects, a command that was enqueued with no client
\* connected and is still Pending is pushed to it exactly once, with its id and
\* payload, and is Sent afterwards.
C6_ReplayAdvancesToSent ==
    [][ConnectionStep =>
          \A k \in 1..Len(commands) :
              (commands[k].status = "pending" /\ commands[k].clientIds = <<>>) =>
                  /\ Cardinality({i \in 1..Len(received'[Len(sockets')]) :
                        received'[Len(sockets')][i].id = commands[k].id}) = 1
                  /\ \A i \in 1..Len(received'[Len(sockets')]) :
                        received'[Len(sockets')][i].id = commands[k].id =>
                            received'[Len(sockets')][i].commands = commands[k].commands
                  /\ StatusOf(commands', commands[k].id) = "sent"]_vars

\* C7: for a command that is Pending or Sent, two successive calls of
\* markCommandConsumed return true, then false; the command is Executed after
\* the first call and the second call changes nothing.
C7_ConsumptionIdempotent ==
    \A k \in 1..Len(commands) :
        commands[k].status \in {"pending", "sent"} =>
            LET first == MarkCommandConsumed(commands, commands[k].id)
                second == MarkCommandConsumed(first.commands, commands[k].id)
            IN /\ first.ok
               /\ StatusOf(first.commands, commands[k].id) = "executed"
               /\ ~second.ok
               /\ second.commands = first.commands

\* C8: a command-consumed message for a command id that is missing from the
\* ledger, or whose command is Executed or Error, is answered with consume-ack
\* success false and changes neither the ledger nor the client registry nor the
\* session registry.
C8_StaleAckIsRefused ==
    [][(/\ lastOp'.op = "command-consumed"
        /\ StatusOf(commands, lastOp'.cmd) \in {"missing", "executed", "error"})
       => (/\ lastOp'.reply = ConsumeAck(lastOp'.cmd, FALSE)
           /\ ~lastOp'.ok
           /\ commands' = commands
           /\ wsClients' = wsClients
           /\ sessions' = sessions
           /\ transports' = transports)]_vars

\* C8 witness: the acknowledgment of a command that was issued and has been
\* purged was just refused, next to a registered client and a live session.
C8_Witness ==
    /\ lastOp.op = "command-consumed"
    /\ lastOp.cmd < nextCmd
    /\ StatusOf(commands, lastOp.cmd) = "missing"
    /\ lastOp.reply = ConsumeAck(lastOp.cmd, FALSE)
    /\ wsClients # <<>>
    /\ sessions # <<>>

\* the step is an accepted draw_canvas call: one command, one broadcast
BroadcastStep == lastOp'.op = "draw" /\ lastOp'.ok

\* C10: in one broadcast every client registered at its start is attempted exactly
\* once: a client whose socket is open gets the message once and stays registered,
\* a client whose socket is not open or whose send fails gets nothing and is
\* removed from the registry, and the count returned is the number of sends that
\* succeeded.
C10_FanOutIsolatesFailures ==
    [][BroadcastStep =>
          LET command == commands'[Len(commands')]
              healthy == SelectSeq(IdSeq(wsClients), LAMBDA c : sockets[c] = "open")
          IN /\ \A c \in Ids(wsClients) :
                    IF sockets[c] = "open"
                    THEN /\ received'[c] =
                                Append(received[c], CanvasCommandMessage(command))
                         /\ c \in Ids(wsClients')
                    ELSE /\ received'[c] = received[c]
                         /\ c \notin Ids(wsClients')
             /\ IdSeq(wsClients') = healthy
             /\ command.clientIds = healthy
             /\ lastOp'.sentCount = Len(healthy)]_vars

\* C10 witness: a broadcast has just deleted a client from the registry and
\* delivered to a client registered after it.
C10_Witness ==
    /\ lastOp.op = "draw"
    /\ lastOp.ok
    /\ lastOp.dropped >= 1
    /\ lastOp.sentCount >= 1
    /\ \E c, d \in 1..Len(sockets) :
          /\ c < d
          /\ sockets[c] = "broken"
          /\ c \notin Ids(wsClients)
          /\ d \in Ids(wsClients)
          /\ Len(received[d]) >= 1
          /\ received[d][Len(received[d])].id = lastOp.cmd

\* the command an accepted draw_canvas call has just put into the ledger
Enqueued(cmds) == cmds[Len(cmds)]

\* the last push sent on the socket of connection c
LastPush(recv, c) == recv[c][Len(recv[c])]

\* C11: when a command is enqueued while N >= 1 clients are registered and every
\* send succeeds, each of the N clients is sent one push with the id and payload
\* of the command, the command is Sent and its clientIds are those N client ids.
C11_BroadcastReachesEveryClient ==
    [][(/\ BroadcastStep
        /\ wsClients # <<>>
        /\ \A c \in Ids(wsClients) : sockets[c] = "open")
       => (/\ \A c \in Ids(wsClients) :
                 /\ Len(received'[c]) = Len(received[c]) + 1
                 /\ SubSeq(received'[c], 1, Len(received[c])) = received[c]
                 /\ LastPush(received', c).id = Enqueued(commands').id
                 /\ LastPush(received', c).commands = Enqueued(commands').commands
           /\ Enqueued(commands').id = lastOp'.cmd
           /\ Enqueued(commands').status = "sent"
           /\ Enqueued(commands').clientIds = IdSeq(wsClients)
           /\ Len(Enqueued(commands').clientIds) = Len(wsClients)
           /\ lastOp'.sentCount = Len(wsClients))]_vars

\* C11 witness: a command was just pushed to two registered clients, none dropped.
C11_Witness ==
    /\ lastOp.op = "draw"
    /\ lastOp.ok
    /\ lastOp.sentCount = 2
    /\ lastOp.dropped = 0
    /\ Len(wsClients) = 2
    /\ Enqueued(commands).status = "sent"
    /\ Len(Enqueued(commands).clientIds) = 2

\* getCommandStats of a ledger that holds one pending command and nothing else
OnePendingStats == [total |-> 1, pending |-> 1, sent |-> 0, executed |-> 0, error |-> 0]

\* C12: when a command is enqueued while no client is registered, nothing is
\* pushed, the command is Pending with empty clientIds and the stats count it as
\* pending; enqueued into an empty ledger it gives total 1, pending 1 and 0 for
\* sent, executed and error.
C12_NoClientStaysPending ==
    [][(BroadcastStep /\ wsClients = <<>>)
       => (/\ received' = received
           /\ lastOp'.sentCount = 0
           /\ Enqueued(commands').status = "pending"
           /\ Enqueued(commands').clientIds = <<>>
           /\ lastOp'.reply[1].stats =
                  [GetCommandStats(commands) EXCEPT !.total = @ + 1, !.pending = @ + 1]
           /\ commands = <<>> => lastOp'.reply[1].stats = OnePendingStats)]_vars

\* C12 witness: the first command was just enqueued with no client registered.
C12_Witness ==
    /\ lastOp.op = "draw"
    /\ lastOp.ok
    /\ sockets = <<>>
    /\ Len(commands) = 1
    /\ commands[1].status = "pending"
    /\ lastOp.reply[1].stats = OnePendingStats

\* the ids of the commands enqueued so far, purged ones included
IssuedCommandIds == 1..(nextCmd - 1)

\* the clients that were sent a push in the step
PushedTo == {c \in 1..Len(received) : received'[c] # received[c]}

\* C13: an enqueued command gets an id that no command enqueued before has or
\* had, no step changes the id (nor the payload or the timestamp) of a command in
\* the ledger, and the command enters the ledger Pending with empty clientIds:
\* what it holds after the enqueue is what the deliveries of that enqueue added.
C13_FreshIdInsertedPending ==
    [][/\ \A i, j \in 1..Len(commands') :
              i # j => commands'[i].id # commands'[j].id
       /\ \A k \in 1..Len(commands) :
              commands[k].id \in Ids(commands') =>
                  LET after == commands'[IndexOf(commands', commands[k].id)]
                  IN /\ after.commands = commands[k].commands
                     /\ after.timestamp = commands[k].timestamp
                     /\ after.sessionId = commands[k].sessionId
       /\ BroadcastStep =>
              /\ lastOp'.cmd \notin IssuedCommandIds
              /\ lastOp'.cmd \notin Ids(commands)
              /\ \A c \in 1..Len(received) : lastOp'.cmd \notin
                     {received[c][i].id : i \in 1..Len(received[c])}
              /\ commands' = Append(commands, Enqueued(commands'))
              /\ Enqueued(commands').id = lastOp'.cmd
              /\ Enqueued(commands').error = ""
              /\ {Enqueued(commands').clientIds[i] :
                     i \in 1..Len(Enqueued(commands').clientIds)} = PushedTo
              /\ Enqueued(commands').status =
                     IF PushedTo = {} THEN "pending" ELSE "sent"]_vars

\* C13 witness: a command was just enqueued after an earlier one was purged.
C13_Witness ==
    /\ lastOp.op = "draw"
    /\ lastOp.ok
    /\ Len(commands) = 1
    /\ commands[1].id = lastOp.cmd
    /\ nextCmd = 3

\* the empty string, as a payload
EmptyPayload == <<"">>

\* C14: a draw_canvas call whose commands join to the empty payload creates no
\* ledger entry and sends no push.
C14_EmptyPayloadRejected ==
    [][\A cmds \in Submissions :
          (JoinLines(cmds) = EmptyPayload /\ DrawCanvas({cmds}, FewCommands))
              => (/\ commands' = commands
                  /\ received' = received
                  /\ wsClients' = wsClients)]_vars

\* the socket of the connection that was just accepted
Newcomer == Len(sockets')

\* C15: a client that connects is pushed every command that is Pending when it
\* connects and no other command, each with its payload, in the order of
\* submission, oldest first.
C15_NewcomerGetsPendingBacklogInOrder ==
    [][ConnectionStep =>
          LET pushes == received'[Newcomer] IN
          /\ {pushes[i].id : i \in 1..Len(pushes)} =
                 {commands[k].id : k \in {j \in 1..Len(commands) :
                                             commands[j].status = "pending"}}
          /\ \A i \in 1..Len(pushes) :
                 /\ StatusOf(commands, pushes[i].id) = "pending"
                 /\ pushes[i].commands =
                        commands[IndexOf(commands, pushes[i].id)].commands
          /\ \A i, j \in 1..Len(pushes) :
                 i < j => /\ pushes[i].id < pushes[j].id
                          /\ pushes[i].timestamp <= pushes[j].timestamp
                          /\ IndexOf(commands, pushes[i].id) <
                                 IndexOf(commands, pushes[j].id)]_vars

\* C15 witness: a client has just connected and was pushed two commands, the
\* older one first.
C15_Witness ==
    /\ lastOp.op = "connection"
    /\ PushedIds(received, Len(sockets)) = <<1, 2>>
    /\ StatusOf(commands, 1) = "pending"
    /\ StatusOf(commands, 2) = "pending"

\* the positions of the pending commands in the ledger
PendingPositions == {k \in 1..Len(commands) : commands[k].status = "pending"}

\* C16: getPendingCommands returns the commands of the ledger whose status is
\* pending, each once and no other command, ordered by timestamp, oldest first
\* (commands of one timestamp in the order of their creation).
C16_ListPendingExactOldestFirst ==
    LET listed == GetPendingCommands(commands) IN
    /\ Len(listed) = Cardinality(PendingPositions)
    /\ \A k \in PendingPositions : \E i \in 1..Len(listed) : listed[i] = commands[k]
    /\ \A i \in 1..Len(listed) :
           /\ listed[i].status = "pending"
           /\ IndexOf(commands, listed[i].id) \in PendingPositions
           /\ listed[i] = commands[IndexOf(commands, listed[i].id)]
    /\ \A i, j \in 1..Len(listed) :
           i < j => /\ listed[i].timestamp <= listed[j].timestamp
                    /\ listed[i].id < listed[j].id

\* C16 witness: the ledger holds two pending commands of different ages.
C16_Witness ==
    /\ Len(GetPendingCommands(commands)) = 2
    /\ GetPendingCommands(commands)[1].timestamp < GetPendingCommands(commands)[2].timestamp
    /\ now > GetPendingCommands(commands)[2].timestamp

\* the step is the close event or the error event of a socket
DisconnectStep == lastOp'.op \in {"close", "error"}

\* the connections whose event the step can be: the one that became closed, or
\* one that is broken afterwards while no other socket changed
DisconnectedIn(op) ==
    {c \in 1..Len(sockets) :
        /\ sockets[c] # "closed"
        /\ sockets' = [sockets EXCEPT ![c] = IF op = "close" THEN "closed" ELSE "broken"]}

\* the registry without the entry of client c, the other entries in their order
Without(clients, c) == SelectSeq(clients, LAMBDA x : x.id # c)

\* C17: removing a client id a second time leaves the registry as the first
\* removal left it and removes no other client: the close or error event of a
\* client that is no longer registered (removed by an earlier error event or by a
\* failed send) changes nothing, the event of a registered client removes that
\* client alone.
C17_RemovalIdempotent ==
    [][/\ \A c \in 1..Len(sockets) :
              LET once == RemoveWebSocketClient(wsClients, c)
              IN /\ RemoveWebSocketClient(once, c) = once
                 /\ once = Without(wsClients, c)
       /\ DisconnectStep =>
              \E c \in DisconnectedIn(lastOp'.op) :
                  /\ wsClients' = Without(wsClients, c)
                  /\ c \notin Ids(wsClients) => wsClients' = wsClients]_vars

\* C17 witness: the close event of a client that was removed before has just been
\* handled, and another client is still registered.
C17_Witness ==
    /\ lastOp.op = "close"
    /\ lastOp.dropped = 0
    /\ wsClients # <<>>
    /\ \E c \in 1..Len(sockets) : sockets[c] = "closed"

\* C18: the close or error event of a client leaves the ledger as it is (no
\* command removed, no status, error or clientIds changed), sends no push and
\* takes that client out of the registry; and no step sends a push to a client
\* that is not in the registry.
C18_DisconnectLeavesLedger ==
    [][/\ DisconnectStep =>
              /\ commands' = commands
              /\ received' = received
              /\ \E c \in DisconnectedIn(lastOp'.op) :
                     /\ c \notin Ids(wsClients')
                     /\ wsClients' = Without(wsClients, c)
       /\ \A c \in 1..Len(sockets) :
              c \notin Ids(wsClients) => received'[c] = received[c]]_vars

\* C18 witness: a client was sent a command and disconnected; the command is
\* still in the ledger, Sent and delivered to that client, and a later command
\* has just been broadcast to another client and not to the disconnected one.
C18_Witness ==
    /\ lastOp.op = "draw"
    /\ lastOp.ok
    /\ lastOp.sentCount >= 1
    /\ \E c \in 1..Len(sockets) :
          /\ sockets[c] = "closed"
          /\ c \notin Ids(wsClients)
          /\ lastOp.cmd \notin {received[c][i].id : i \in 1..Len(received[c])}
          /\ \E k \in 1..Len(commands) :
                /\ commands[k].status = "sent"
                /\ commands[k].clientIds = <<c>>
                /\ commands[k].id # lastOp.cmd

\* the registered clients a send of the step fails for: their socket is not open
FailingClients == {c \in Ids(wsClients) : sockets[c] # "open"}

\* the client ids in the clientIds of a command
Delivered(command) == {command.clientIds[i] : i \in 1..Len(command.clientIds)}

\* C19: when a send fails during a broadcast, the command is Pending or Sent
\* afterwards, carries no error, and the client the send failed for is not in
\* its clientIds; this holds for the broadcast of an enqueue and for the
\* broadcasts of a replay, which change the status and error of no command.
C19_DeliveryFailureNeverFailsCommand ==
    [][FailingClients # {} =>
          /\ BroadcastStep =>
                 /\ Enqueued(commands').status \in {"pending", "sent"}
                 /\ Enqueued(commands').status = "sent" <=> lastOp'.sentCount > 0
                 /\ Enqueued(commands').error = ""
                 /\ Delivered(Enqueued(commands')) \cap FailingClients = {}
                 /\ SubSeq(commands', 1, Len(commands)) = commands
          /\ ConnectionStep =>
                 /\ Len(commands') = Len(commands)
                 /\ \A k \in 1..Len(commands) :
                        /\ commands'[k].status = commands[k].status
                        /\ commands'[k].error = commands[k].error
                        /\ (Delivered(commands'[k]) \ Delivered(commands[k]))
                               \cap FailingClients = {}]_vars

\* C19 witness: a command was just enqueued while the send to the only registered
\* client failed: the client is gone and the command is Pending without error.
C19_Witness ==
    /\ lastOp.op = "draw"
    /\ lastOp.ok
    /\ lastOp.dropped = 1
    /\ lastOp.sentCount = 0
    /\ Enqueued(commands).id = lastOp.cmd
    /\ Enqueued(commands).status = "pending"
    /\ Enqueued(commands).error = ""
    /\ Enqueued(commands).clientIds = <<>>

\* the draw_canvas calls of the model that hold a line with an error, and the
\* errors validateDSLCommands reports for each
RejectedSubmissions == {<<"zap(1)">>, <<"clear()", "draw a cat">>, <<"">>}

ReportedErrors(cmds) ==
    CASE cmds = <<"zap(1)">> -> <<[index |-> 1, error |-> "Unknown command"]>>
      [] cmds = <<"clear()", "draw a cat">> ->
             <<[index |-> 2, error |-> "Invalid command syntax"]>>
      [] cmds = <<"">> -> <<[index |-> 1, error |-> "Empty command"]>>

\* C20: a draw_canvas call for which the validation reports an error leaves the
\* ledger, the client registry and the session registry unchanged, sends no push,
\* and is answered with an error response that holds the validation errors.
C20_InvalidSubmissionNotEnqueued ==
    [][/\ \A cmds \in RejectedSubmissions :
              /\ ~ValidateDSLCommands(cmds).isValid
              /\ ValidateDSLCommands(cmds).errors = ReportedErrors(cmds)
              /\ DrawCanvas({cmds}, FewCommands) =>
                     /\ UNCHANGED <<commands, wsClients, sessions, transports,
                                    received, nextCmd>>
                     /\ lastOp'.reply =
                            <<[isError |-> TRUE, errors |-> ReportedErrors(cmds)]>>
       /\ (lastOp'.op = "draw" /\ lastOp'.reply[1].isError) =>
              /\ UNCHANGED <<commands, wsClients, sessions, transports, received,
                             nextCmd>>
              /\ lastOp'.reply[1].errors # <<>>]_vars

\* C20 witness: a call with an invalid second line was just rejected with its
\* error, next to a ledger entry, a registered client and a session.
C20_Witness ==
    /\ lastOp.op = "draw"
    /\ ~lastOp.ok
    /\ lastOp.reply = <<[isError |-> TRUE,
                         errors |-> <<[index |-> 2, error |-> "Invalid command syntax"]>>]>>
    /\ commands # <<>>
    /\ wsClients # <<>>
    /\ sessions # <<>>

\* the step is a failure report with the given error text, over the socket or
\* over HTTP
ErrorReport(error) ==
    \/ WsCommandStatus({"error"}, {error})
    \/ HttpCommandStatus({"error"}, {error})

\* the error text of the command with the given id
ErrorOf(cmds, id) == cmds[IndexOf(cmds, id)].error

\* C21: a status report "error" for a Pending or Sent command makes the command
\* Error, stores the error text that is reported in place of any earlier one
\* (a report without a text leaves the field as it is), and the stats count the
\* command under error; a report for an id that is not in the ledger changes
\* nothing and returns false.
C21_ReportedFailureRecorded ==
    [][\A error \in ErrorDetails :
          ErrorReport(error) =>
              LET id == lastOp'.cmd IN
              /\ StatusOf(commands, id) \in {"pending", "sent"} =>
                     /\ lastOp'.ok
                     /\ StatusOf(commands', id) = "error"
                     /\ ErrorOf(commands', id) =
                            IF error # "" THEN error ELSE ErrorOf(commands, id)
                     /\ GetCommandStats(commands').error =
                            GetCommandStats(commands).error + 1
                     /\ GetCommandStats(commands').total =
                            GetCommandStats(commands).total
                     /\ IdSeq(commands') = IdSeq(commands)
              /\ StatusOf(commands, id) = "missing" =>
                     /\ ~lastOp'.ok
                     /\ commands' = commands]_vars

\* C21 witness: a command that was delivered to a client has just been reported
\* failed: it is Error with the text "bang" and is the one command the stats
\* count under error.
C21_Witness ==
    /\ lastOp.op \in {"command-status", "http-command-status"}
    /\ lastOp.ok
    /\ StatusOf(commands, lastOp.cmd) = "error"
    /\ ErrorOf(commands, lastOp.cmd) = "bang"
    /\ Delivered(commands[IndexOf(commands, lastOp.cmd)]) # {}
    /\ GetCommandStats(commands).error = 1

\* the session with the given id
SessionOf(sess, id) == sess[IndexOf(sess, id)]

\* C22: a sweep removes the sessions whose lastActivity is more than the timeout
\* before the time of the sweep and no other session: a session whose
\* lastActivity is the time of the sweep survives, the sessions that survive are
\* unchanged, and the count returned is the number of sessions removed.
C22_SweepRemovesExactlyInactive ==
    [][CleanupStep =>
          /\ \A k \in 1..Len(sessions) :
                 /\ (now - sessions[k].lastActivity > SessionTimeoutMs)
                        <=> sessions[k].id \notin Ids(sessions')
                 /\ sessions[k].lastActivity = now => sessions[k].id \in Ids(sessions')
                 /\ sessions[k].id \in Ids(sessions') =>
                        SessionOf(sessions', sessions[k].id) = sessions[k]
          /\ Ids(sessions') \subseteq Ids(sessions)
          /\ lastOp'.reply[1].cleanedSessions = Len(sessions) - Len(sessions')]_vars

\* C22 witness: a sweep has just removed one session and kept another one, older
\* than the timeout, whose lastActivity was refreshed at the time of the sweep.
C22_Witness ==
    /\ lastOp.op = "cleanup"
    /\ lastOp.reply[1].cleanedSessions = 1
    /\ Len(sessions) = 1
    /\ sessions[1].lastActivity = now
    /\ now - sessions[1].createdAt > SessionTimeoutMs

\* the session id the client that was just registered carries (0: none)
NewcomerSession == wsClients'[IndexOf(wsClients', Newcomer)].sessionId

\* C23: when a client is registered with the id of an existing session, the
\* client id is added to the clientIds of that session and its lastActivity is set
\* to the current time, the other sessions are unchanged, and a sweep at that time
\* keeps the session; registering a client with no session id, or with an id that
\* no session has, changes no session.
C23_AssociationRefreshesSession ==
    [][ConnectionStep =>
          IF NewcomerSession \in Ids(sessions)
          THEN LET before == SessionOf(sessions, NewcomerSession)
                   after == SessionOf(sessions', NewcomerSession)
               IN /\ after = [before EXCEPT !.clientIds = Append(@, Newcomer),
                                            !.lastActivity = now]
                  /\ IdSeq(sessions') = IdSeq(sessions)
                  /\ \A k \in 1..Len(sessions) :
                         sessions[k].id # NewcomerSession => sessions'[k] = sessions[k]
                  /\ NewcomerSession \in
                         Ids(CleanupInactiveSessions(sessions', now, SessionTimeoutMs))
          ELSE sessions' = sessions]_vars

\* C23 witness: a client was just registered with the id of a session that had
\* been idle for longer than the timeout: the session holds the client, its
\* lastActivity is the current time, and another session was left alone.
C23_Witness ==
    /\ lastOp.op = "connection"
    /\ \E k \in 1..Len(sessions) :
          /\ sessions[k].clientIds = <<Len(sockets)>>
          /\ sessions[k].lastActivity = now
          /\ now - sessions[k].createdAt > SessionTimeoutMs
    /\ \E k \in 1..Len(sessions) :
          /\ sessions[k].clientIds = <<>>
          /\ sessions[k].lastActivity < now

\* the step is the close notification of the transport
TransportCloseStep == lastOp'.op = "transport-close"

\* the sessions without the one of the given id, the others in their order
WithoutSession(sess, id) == SelectSeq(sess, LAMBDA x : x.id # id)

\* C24: removing a session that the sweep or an earlier close notification has
\* removed already changes nothing; a close notification removes the session of
\* the transport and no other, the sweep and the removal give the same registry
\* in either order, and each of them repeated changes nothing more.
C24_SessionRemovalSafeInAnyOrder ==
    [][/\ \A id \in 1..nextSession :
              LET swept == CleanupInactiveSessions(sessions, now, SessionTimeoutMs)
                  removed == RemoveSession(sessions, id)
              IN /\ removed = WithoutSession(sessions, id)
                 /\ RemoveSession(removed, id) = removed
                 /\ RemoveSession(swept, id) =
                        CleanupInactiveSessions(removed, now, SessionTimeoutMs)
                 /\ CleanupInactiveSessions(swept, now, SessionTimeoutMs) = swept
       /\ TransportCloseStep =>
              /\ sessions' = WithoutSession(sessions, mcpSessionId)
              /\ mcpSessionId \notin Ids(sessions) => sessions' = sessions
              /\ transports' = transports \ {mcpSessionId}
       /\ CleanupStep =>
              \A k \in 1..Len(sessions) :
                  ~IsInactiveSession(sessions[k], now, SessionTimeoutMs) =>
                      sessions[k].id \in Ids(sessions')]_vars

\* C24 witness: the close notification of a transport whose session had been
\* removed before has just been handled: it removed nothing, and another session
\* is still registered.
C24_Witness ==
    /\ lastOp.op = "transport-close"
    /\ lastOp.dropped = 0
    /\ mcpSessionId # 0
    /\ mcpSessionId \notin Ids(sessions)
    /\ sessions # <<>>

\* the number of ledger entries whose status is st
EntriesIn(st) == Cardinality({k \in 1..Len(commands) : commands[k].status = st})

\* C25: in every reachable state getCommandStats reports, for each of the four
\* statuses, the number of ledger entries with that status, and a total that is
\* the number of ledger entries and the sum of the four counts.
C25_StatsCountEveryEntry ==
    LET stats == GetCommandStats(commands) IN
    /\ stats.pending = EntriesIn("pending")
    /\ stats.sent = EntriesIn("sent")
    /\ stats.executed = EntriesIn("executed")
    /\ stats.error = EntriesIn("error")
    /\ stats.total = Len(commands)
    /\ stats.total = stats.pending + stats.sent + stats.executed + stats.error

\* s is an initial part of t
IsPrefix(s, t) == Len(s) <= Len(t) /\ SubSeq(t, 1, Len(s)) = s

\* C26: no step removes a client id from the clientIds of a command that stays
\* in the ledger: the clientIds before the step are an initial part of the
\* clientIds after it.
C26_ClientIdsOnlyGrow ==
    [][\A k \in 1..Len(commands) :
          commands[k].id \in Ids(commands') =>
              IsPrefix(commands[k].clientIds,
                       commands'[IndexOf(commands', commands[k].id)].clientIds)]_vars

\* C26 witness: a command that was pushed to a client is Error, the client has
\* disconnected, a cleanup has just run, and the command still names the client.
C26_Witness ==
    /\ lastOp.op = "cleanup"
    /\ wsClients = <<>>
    /\ \E k \in 1..Len(commands) :
          /\ commands[k].status = "error"
          /\ commands[k].clientIds # <<>>
          /\ \A i \in 1..Len(commands[k].clientIds) :
                 sockets[commands[k].clientIds[i]] = "closed"

\* the origins a submission may have: no session, a session ever created, or an
\* id no session has
Origins == 0..nextSession

\* what an enqueue delivers: the inboxes, the registry, the count and the
\* clientIds and status of the new command
DeliveryOf(r) ==
    [received |-> r.received, wsClients |-> r.wsClients, sentCount |-> r.sentCount,
     clientIds |-> Enqueued(r.commands).clientIds,
     status |-> Enqueued(r.commands).status]

\* C27: the delivery of a submission does not depend on its origin session: with
\* the same registered clients, submissions of any two origins are pushed to the
\* same clients; and a broadcast reaches every registered client whose socket is
\* open, whatever the session id of the client and of the command.
C27_DeliveryIgnoresOrigin ==
    [][/\ \A throwing \in SUBSET BrokenRegistered :
              \A s1, s2 \in Origins :
                  DeliveryOf(AddCommand(<<"clear()">>, s1, throwing)) =
                      DeliveryOf(AddCommand(<<"clear()">>, s2, throwing))
       /\ BroadcastStep =>
              /\ PushedTo = {c \in Ids(wsClients) : sockets[c] = "open"}
              /\ Delivered(Enqueued(commands')) = PushedTo
              /\ Enqueued(commands').sessionId = mcpSessionId]_vars

\* C27 witness: a command that originates from a session has just been pushed to a
\* client that is associated with no session or with an id that is not the
\* command's.
C27_Witness ==
    /\ lastOp.op = "draw"
    /\ lastOp.ok
    /\ Enqueued(commands).sessionId # 0
    /\ \E k \in 1..Len(wsClients) :
          /\ wsClients[k].sessionId # Enqueued(commands).sessionId
          /\ wsClients[k].id \in Delivered(Enqueued(commands))
          /\ LastPush(received, wsClients[k].id).id = lastOp.cmd

\* the step handles a message that is not JSON, a message of an unknown type, or
\* the acknowledgment of a command that is Executed already
UnexpectedTraffic ==
    \/ lastOp'.op \in {"invalid-json", "unknown-type"}
    \/ /\ lastOp'.op = "command-consumed"
       /\ StatusOf(commands, lastOp'.cmd) = "executed"

\* C28: a message that is not valid JSON, a message of an unknown type and a
\* duplicate acknowledgment leave the ledger, the client registry and the session
\* registry unchanged and close no socket (the duplicate acknowledgment is
\* answered with success false); with them every other variable of the server
\* is unchanged, so the handlers that run later find the server as it was.
C28_UnexpectedTrafficChangesNothing ==
    [][UnexpectedTraffic =>
          /\ UNCHANGED <<commands, wsClients, sessions, transports, mcpSessionId,
                         sockets, received, nextCmd, nextSession, now>>
          /\ ~lastOp'.ok
          /\ lastOp'.op = "command-consumed" =>
                 lastOp'.reply = ConsumeAck(lastOp'.cmd, FALSE)]_vars

\* C28 witness: a message that is not JSON has just been handled while a command
\* is in the ledger, its sender is registered with an open socket and a session
\* exists.
C28_Witness ==
    /\ lastOp.op = "invalid-json"
    /\ commands # <<>>
    /\ sessions # <<>>
    /\ \E c \in Ids(wsClients) : sockets[c] = "open"

\* C29: a command that was submitted while a client was connected, and so was
\* pushed and is Sent, is eventually Executed when the clients stay connected and
\* answer every push with its acknowledgment.
C29_AcknowledgedCommandEventuallyExecuted ==
    \A id \in 1..MaxCommands :
        [](StatusOf(commands, id) = "sent" => <>(StatusOf(commands, id) = "executed"))

\* the clock can pass the age threshold of the command with the given id
ClockCanPass(cmds, id) ==
    /\ IndexOf(cmds, id) # 0
    /\ cmds[IndexOf(cmds, id)].timestamp + OneHourMs < MaxTicks * ClockStepMs

\* C30: with a cleanup that keeps firing and a clock that advances, an Executed
\* command is eventually removed from the ledger unless a later report modifies
\* it, a terminal command (Executed or Error) whose age threshold the clock can
\* pass is eventually removed, and only a cleanup step removes a command.
C30_TerminalCommandsEventuallyCollected ==
    /\ \A id \in 1..FewCommands :
          [](StatusOf(commands, id) = "executed"
               => <>(StatusOf(commands, id) \in {"missing", "error"}))
    /\ \A id \in 1..FewCommands :
          []((StatusOf(commands, id) \in {"executed", "error"}
                /\ ClockCanPass(commands, id))
               => <>(StatusOf(commands, id) = "missing"))
    /\ [][~(Ids(commands) \subseteq Ids(commands')) => CleanupStep]_vars

\* C30 witness: a cleanup has just run before the clock advanced at all and the
\* ledger holds none of the commands that were issued: no command is old, so what
\* the cleanup collected had reached Executed.
C30_Witness ==
    /\ lastOp.op = "cleanup"
    /\ nextCmd > 1
    /\ commands = <<>>
    /\ now = 0

\* C31: right after a submission is enqueued and broadcast, the registry holds as
\* many clients as the broadcast had successful sends; the submitter is told
\* "broadcast" exactly when the command is Sent and "cached" exactly when it is
\* Pending.
C31_ReportAgreesWithLedger ==
    [][BroadcastStep =>
          /\ Len(wsClients') = lastOp'.sentCount
          /\ lastOp'.report \in {"broadcast", "cached"}
          /\ lastOp'.report = "broadcast" <=> Enqueued(commands').status = "sent"
          /\ lastOp'.report = "cached" <=> Enqueued(commands').status = "pending"]_vars

\* C31 witness: a submission met a registry of one healthy client and one client
\* whose socket had failed: one send succeeded, one client was dropped and the
\* submitter was told "broadcast" for a command that is Sent.
C31_Witness ==
    /\ lastOp.op = "draw"
    /\ lastOp.ok
    /\ lastOp.sentCount = 1
    /\ lastOp.dropped = 1
    /\ lastOp.report = "broadcast"
    /\ Enqueued(commands).status = "sent"

\* C32: in every reachable state every command of the ledger has one of the four
\* statuses pending, sent, executed and error, whatever status the clients send.
C32_StatusAlwaysOneOfFour ==
    \A k \in 1..Len(commands) : commands[k].status \in Statuses

\* the values of the entries of a sequence
Range(s) == {s[i] : i \in 1..Len(s)}

\* C33: in every reachable state the clientIds of a command list no client id
\* twice: their length is the number of distinct clients the command was sent to.
C33_ClientIdsWithoutDuplicates ==
    \A k \in 1..Len(commands) :
        /\ Len(commands[k].clientIds) = Cardinality(Range(commands[k].clientIds))
        /\ Len(commands[k].clientIds) =
               Cardinality({c \in 1..Len(received) :
                               commands[k].id \in Range(PushedIds(received, c))})

\* C34: no step of any handler removes a Pending command: a command that is
\* Pending before a step is in the ledger after it with the same id and payload,
\* and a cleanup step leaves its whole entry as it was.
C34_PendingNeverRemoved ==
    [][\A k \in 1..Len(commands) :
          commands[k].status = "pending" =>
              /\ commands[k].id \in Ids(commands')
              /\ commands'[IndexOf(commands', commands[k].id)].commands =
                     commands[k].commands
              /\ CleanupStep => Kept(k)]_vars

\* C34 witness: a cleanup has just run on a ledger that held a Pending command
\* older than the age threshold, and the command is still there, Pending.
C34_Witness ==
    /\ lastOp.op = "cleanup"
    /\ \E k \in 1..Len(commands) :
          /\ commands[k].status = "pending"
          /\ OlderThanThreshold(commands[k], now)

\* C35: in every reachable state the keys of the transports table are the ids of
\* the sessions of the session registry.
C35_TransportsMatchSessions == transports = Ids(sessions)

\* the step is the rendering client handling a message from one of its sockets
FrontMessageStep == frontOp'.op = "message"

\* the command-consumed message for a command id, sent on a socket
CommandConsumed(commandId, socket) ==
    [type |-> "command-consumed", commandId |-> commandId, socket |-> socket]

\* C36: for each canvas-command message that one of its open sockets delivers, the
\* rendering client sends exactly one command-consumed message with the id of the
\* push, on that socket, whether executing the command threw or not; it sends
\* none for a message of another type, and none in any other step.
C36_EveryPushAcknowledgedOnce ==
    [][IF FrontMessageStep /\ frontOp'.detail = "canvas-command"
       THEN sentAcks' = Append(sentAcks, CommandConsumed(frontOp'.commandId,
                                                         frontOp'.socket))
       ELSE sentAcks' = sentAcks]_vars

\* C36 witness: the rendering client has just confirmed a second push, on the
\* socket it opened after its first socket was closed.
C36_Witness ==
    /\ frontOp.op = "message"
    /\ frontOp.detail = "canvas-command"
    /\ Len(sentAcks) = 2
    /\ sentAcks[1].socket = 1
    /\ sentAcks[2].socket = 2

\* C37: once destroy() has been called the rendering client holds no open
\* WebSocket and creates no new one; a close that destroy() did not cause
\* schedules exactly one reconnect.
C37_DestroyIsFinal ==
    /\ [](destroyed => \A k \in 1..Len(webSockets) : webSockets[k] # "open")
    /\ [][destroyed => Len(webSockets') = Len(webSockets)]_vars
    /\ [][(frontOp'.op = "close" /\ frontOp'.detail = "remote")
             => reconnectTimers' = reconnectTimers + 1]_vars

\* the step is a click on the canvas of the rendering client
ClickStep == frontOp'.op = "click"

\* the area a click at the point hits (the first registered area that holds it)
HitBy(point) == GetClickedAction(registeredActions, point[1], point[2])

Min(a, b) == IF a < b THEN a ELSE b

\* C39: the command history of the rendering client holds at most 100 entries,
\* and they are the texts added most recently, in the order they were added:
\* the texts being numbered as they are executed, the history is a run of
\* consecutive numbers that ends with the last text executed; an added text
\* makes it one longer up to 100, and clearing it leaves it empty.
C39_HistoryBounded ==
    /\ [](/\ Len(commandHistory) <= HistoryLimit
          /\ \A i \in 1..Len(commandHistory) :
                commandHistory[i] = executions - Len(commandHistory) + i)
    /\ [][/\ frontOp'.op = "execute" =>
                Len(commandHistory') = Min(Len(commandHistory) + 1, HistoryLimit)
          /\ frontOp'.op = "clear-history" => commandHistory' = <<>>]_vars

\* C39 witness: more than 100 texts were added without a clear in between: the
\* history holds 100 entries and its oldest entries are gone.
C39_Witness ==
    /\ frontOp.op = "execute"
    /\ Len(commandHistory) = HistoryLimit
    /\ commandHistory[1] > 1
    /\ commandHistory[HistoryLimit] = executions

====
